---- MODULE Spec2Model ----
(***************************************************************************)
(* State-machine model of the api-sentinel SDK (src/sentinel/__init__.py): *)
(* the process-wide _SENTINEL_CONFIG dictionary, init(), wrap(), the       *)
(* _sentinel_wrapper closure that wrap() installs on                       *)
(* client.chat.completions.create, and the report threads it starts.       *)
(*                                                                         *)
(* Application threads call init, wrap and the wrapped create method in    *)
(* any order and concurrently.  Each statement of the source that reads or *)
(* writes _SENTINEL_CONFIG is one step of its own, so that the read and    *)
(* the write of "current_usage += cost", the two reads of the gate's       *)
(* comparison and the three stores of init interleave with the steps of    *)
(* other threads, as a Python build is free to schedule them.              *)
(*                                                                         *)
(* Money is counted in integer units of 1e-4 of the reporting currency     *)
(* (the adapter rounds to 4 decimal places).                               *)
(***************************************************************************)
EXTENDS Integers, Sequences, FiniteSets, TLC

\* ---------------------------------------------------------------- bounds
NumThreads == 2      \* application threads
MaxInits   == 2      \* calls of init in one run
MaxCalls   == 2      \* calls of the wrapped method in one run
MaxWrap    == 2      \* how many times wrap() is applied to the client
MaxBudget  == 2      \* largest monthly_budget / current_usage the backend returns
MaxCost    == 1      \* largest cost an adapter returns
MaxSeqCost == 2      \* largest cost an adapter returns in a one-at-a-time session
MaxReports == 1      \* report threads the process can have alive at once
MaxTokens  == 20     \* largest prompt_tokens / completion_tokens of a response

Threads == 1..NumThreads

\* ------------------------------------------------------------ API keys
\* A key is a sequence of characters; None is Python's None.
Prefix ==
    <<"a","p","i","-","s","e","n","t","i","n","e","l","_","p","k","_">>

NoneKey == <<"<None>">>

Keys ==
    { NoneKey,
      <<>>,
      SubSeq(Prefix, 1, Len(Prefix) - 1),
      <<"x">> \o Prefix \o <<"A">>,
      Prefix \o <<"A">>,
      Prefix \o <<"B">> }

\* bool(api_key): None and the empty string are falsy
truthy(k) == k # NoneKey /\ Len(k) > 0

\* Faulty variant: the prefix is looked for anywhere in the key
startswith_anywhere(k, p) ==
    \E i \in 1..(Len(k) - Len(p) + 1) : SubSeq(k, i, i + Len(p) - 1) = p

\* str.startswith
startswith(k, p) == Len(k) >= Len(p) /\ SubSeq(k, 1, Len(p)) = p

\* the condition of line 29: the key is rejected
bad_key(k) == ~truthy(k) \/ ~startswith(k, Prefix)

\* --------------------------------------------------- the verify response
\* What requests.get(.../keys/verify, timeout=5) can produce: an exception
\* (Timeout, ConnectionError, both RequestException) or a response with a
\* status code and a JSON body holding some of the three fields.
Fields == {"project_id", "monthly_budget", "current_usage"}

Bodies ==
    { [has |-> Fields, project_id |-> "p1", monthly_budget |-> b, current_usage |-> u]
        : b \in {0, MaxBudget}, u \in {0, MaxBudget} }
    \cup
    { [has |-> Fields \ {f}, project_id |-> "p1", monthly_budget |-> MaxBudget,
       current_usage |-> 0] : f \in Fields }

NoBody == [has |-> {}, project_id |-> "", monthly_budget |-> 0, current_usage |-> 0]

VerifyOutcomes ==
    { [net |-> n, status |-> 0, body |-> NoBody] : n \in {"timeout", "connection_error"} }
    \cup
    { [net |-> "ok", status |-> 200, body |-> b] : b \in Bodies }
    \cup
    { [net |-> "ok", status |-> 300, body |-> b] : b \in { c \in Bodies : c.has = Fields } }
    \cup
    { [net |-> "ok", status |-> s, body |-> NoBody] : s \in {401, 404, 500} }

\* Response.raise_for_status(): HTTPError for 4xx and 5xx, nothing otherwise
raises_for_status(status) == status >= 400 /\ status < 600

\* --------------------------------------------------------------- results
\* What an operation hands to its caller.
NoResult      == [kind |-> "none",   val |-> ""]
Returned(v)   == [kind |-> "return", val |-> v]
Raised(e)     == [kind |-> "raise",  val |-> e]

Responses    == {"response1", "response2"}
ClientErrors == {"APIError"}

\* A wrapped call: what the client's own method can do, and what an adapter
\* can give for a response.
OriginalOutcomes ==
    { Returned(r) : r \in Responses } \cup { Raised(e) : e \in ClientErrors }

\* adapter.get_usage_and_cost(response): it raises, or returns a dict without
\* "cost", or one whose cost is no number, or one with a cost
AdapterOutcomes ==
    { [kind |-> k, cost |-> 0] : k \in {"raise", "nocost", "badcost"} }
    \cup
    { [kind |-> "cost", cost |-> c] : c \in 0..MaxCost }

\* What requests.post(.../v1/usage, timeout=5) can produce.
PostOutcomes ==
    { [net |-> n, status |-> 0] : n \in {"timeout", "connection_error"} }
    \cup
    { [net |-> "ok", status |-> s] : s \in {200, 401, 500} }

\* --------------------------------------------------------- Python floats
\* The adapter computes in Python floats, IEEE 754 binary64.  A natural
\* number is a sequence of digits in base Base, least significant first,
\* without leading zero digits; a float is 0.0 or m * 2^e with m a number of
\* exactly Precision bits.  Every operation rounds its exact result to the
\* nearest float, ties to the even mantissa.  (The values the adapter meets
\* are far from the subnormal and the infinite range.)
Precision == 53

Base == 1024

Zero == [m |-> <<>>, e |-> 0]

Zeros(k) == [i \in 1..k |-> 0]

\* the number of bits of a digit: 0 for 0
DigitBits(v) == IF v = 0 THEN 0 ELSE CHOOSE k \in 1..31 : 2^(k - 1) <= v /\ (k = 31 \/ v < 2^k)

RECURSIVE Digits(_)
Digits(n) == IF n = 0 THEN <<>> ELSE <<n % Base>> \o Digits(n \div Base)

RECURSIVE ToInt(_)
ToInt(a) == IF a = <<>> THEN 0 ELSE Head(a) + Base * ToInt(Tail(a))

\* without the leading zero digits
RECURSIVE Norm(_)
Norm(a) ==
    IF a # <<>> /\ a[Len(a)] = 0 THEN Norm(SubSeq(a, 1, Len(a) - 1)) ELSE a

BitLen(a) == IF a = <<>> THEN 0 ELSE (Len(a) - 1) * DigitBits(Base - 1) + DigitBits(a[Len(a)])

Odd(a) == a # <<>> /\ Head(a) % 2 = 1

\* a + b + carry
RECURSIVE AddDigits(_, _, _)
AddDigits(a, b, carry) ==
    IF a = <<>> /\ b = <<>> THEN Digits(carry)
    ELSE LET x == IF a = <<>> THEN 0 ELSE Head(a)
             y == IF b = <<>> THEN 0 ELSE Head(b)
             v == x + y + carry
         IN <<v % Base>>
              \o AddDigits(IF a = <<>> THEN a ELSE Tail(a),
                           IF b = <<>> THEN b ELSE Tail(b), v \div Base)

\* a * c + carry, for a small number c
RECURSIVE MulSmall(_, _, _)
MulSmall(a, c, carry) ==
    IF a = <<>> THEN Digits(carry)
    ELSE LET v == Head(a) * c + carry
         IN <<v % Base>> \o MulSmall(Tail(a), c, v \div Base)

\* a * b
RECURSIVE MulDigits(_, _)
MulDigits(a, b) ==
    IF b = <<>> THEN <<>>
    ELSE Norm(AddDigits(MulSmall(a, Head(b), 0), <<0>> \o MulDigits(a, Tail(b)), 0))

\* a divided by the small number d: quotient and remainder
RECURSIVE DivSmall(_, _)
DivSmall(a, d) ==
    IF a = <<>> THEN [q |-> <<>>, r |-> 0]
    ELSE LET hi == DivSmall(Tail(a), d)
             v == hi.r * Base + Head(a)
         IN [q |-> <<v \div d>> \o hi.q, r |-> v % d]

\* a * 2^k
ShiftLeft(a, k) ==
    LET w == DigitBits(Base - 1)
    IN Norm(Zeros(k \div w) \o MulSmall(a, 2^(k % w), 0))

\* a divided by 2^k: the quotient, and whether bits were lost
ShiftRight(a, k) ==
    LET w == DigitBits(Base - 1)
        n == k \div w
        low == SubSeq(a, 1, IF n < Len(a) THEN n ELSE Len(a))
        d == DivSmall(SubSeq(a, n + 1, Len(a)), 2^(k % w))
    IN [q |-> Norm(d.q), lost |-> d.r # 0 \/ \E i \in DOMAIN low : low[i] # 0]

\* The float nearest to a * 2^e, or to a little more than that when sticky.
RoundDigits(a, e, sticky) ==
    LET L == BitLen(Norm(a))
    IN IF L = 0 THEN Zero
       ELSE IF L <= Precision
         THEN [m |-> ShiftLeft(Norm(a), Precision - L), e |-> e - (Precision - L)]
         ELSE LET cut == L - Precision
                  s == ShiftRight(Norm(a), cut - 1)
                  m0 == ShiftRight(s.q, 1).q
                  up == Odd(s.q) /\ (sticky \/ s.lost \/ Odd(m0))
                  m1 == IF up THEN Norm(AddDigits(m0, <<1>>, 0)) ELSE m0
              IN IF BitLen(m1) > Precision
                   THEN [m |-> ShiftRight(m1, 1).q, e |-> e + cut + 1]
                   ELSE [m |-> m1, e |-> e + cut]

\* the float n * 2^k, as a literal such as 83.50 = 167 * 2^-1 denotes it
Float(n, k) == RoundDigits(Digits(n), k, FALSE)

\* int / int, Python's true division of a small int by a small positive int
truediv(i, d) ==
    LET qr == DivSmall(ShiftLeft(Digits(i), 2 * Precision), d)
    IN RoundDigits(qr.q, 0 - 2 * Precision, qr.r # 0)

\* float * float
fmul(x, y) ==
    IF x = Zero \/ y = Zero THEN Zero
    ELSE RoundDigits(MulDigits(x.m, y.m), x.e + y.e, FALSE)

\* float + float
fadd(x, y) ==
    IF x = Zero THEN y
    ELSE IF y = Zero THEN x
    ELSE LET lo == IF x.e < y.e THEN x.e ELSE y.e
         IN RoundDigits(AddDigits(ShiftLeft(x.m, x.e - lo), ShiftLeft(y.m, y.e - lo), 0),
                        lo, FALSE)

\* Faulty variant: the digits after the fourth are cut off
pyround_truncating(x, scale) ==
    IF x = Zero THEN 0
    ELSE ToInt(ShiftRight(MulDigits(x.m, Digits(scale)), 0 - x.e).q)

\* round(x, ndigits) with scale = 10^ndigits, for a float x with a negative
\* exponent: the multiple of 1/scale nearest to the exact value of x, ties
\* to even, given as the number of units of 1/scale.
pyround(x, scale) ==
    IF x = Zero THEN 0
    ELSE LET s == ShiftRight(MulDigits(x.m, Digits(scale)), 0 - x.e - 1)
             k == ShiftRight(s.q, 1).q
             up == Odd(s.q) /\ (s.lost \/ Odd(k))
         IN ToInt(k) + (IF up THEN 1 ELSE 0)

\* ----------------------------------------------------------- OpenAIAdapter
\* MODEL_PRICING (lines 11-15): USD per million tokens
MODEL_PRICING ==
    ("gpt-4o"        :> [input |-> Float(5, 0), output |-> Float(15, 0)]) @@
    ("gpt-4-turbo"   :> [input |-> Float(10, 0), output |-> Float(30, 0)]) @@
    ("gpt-3.5-turbo" :> [input |-> Float(1, 0 - 1), output |-> Float(3, 0 - 1)])

\* the model names a response can carry
ModelNames ==
    {"gpt-4o", "gpt-4-turbo", "gpt-3.5-turbo", "gpt-4o-mini", "gpt-4", "GPT-4O", ""}

Tokens == 0..MaxTokens

\* Faulty variant: a model that is not in the table is priced as the cheapest one
pricing_get_cheapest(model_name) ==
    IF model_name \in DOMAIN MODEL_PRICING THEN MODEL_PRICING[model_name]
    ELSE MODEL_PRICING["gpt-3.5-turbo"]

\* line 56: MODEL_PRICING.get(model_name, {"input": 0, "output": 0})
pricing_get(model_name) ==
    IF model_name \in DOMAIN MODEL_PRICING THEN MODEL_PRICING[model_name]
    ELSE [input |-> Zero, output |-> Zero]

\* line 67: 83.50
usd_to_inr_rate == Float(167, 0 - 1)

\* lines 56-68: total_cost_inr
total_cost_inr(input_tokens, output_tokens, model_name) ==
    LET pricing == pricing_get(model_name)
        input_cost == fmul(truediv(input_tokens, 1000000), pricing.input)
        output_cost == fmul(truediv(output_tokens, 1000000), pricing.output)
        total_cost_usd == fadd(input_cost, output_cost)
    IN fmul(total_cost_usd, usd_to_inr_rate)

\* line 70: round(total_cost_inr, 4), in units of 1e-4
calculate_openai_cost(x) == pyround(x, 10000)

\* ----------------------------------------------------------------- state
VARIABLES
    api_key,          \* _SENTINEL_CONFIG["api_key"]
    project_id,       \* _SENTINEL_CONFIG["project_id"]
    monthly_budget,   \* _SENTINEL_CONFIG["monthly_budget"]
    current_usage,    \* _SENTINEL_CONFIG["current_usage"]
    create,           \* client.chat.completions.create: 0 is the client's own
                      \* method, n > 0 the wrapper whose original_method is n-1
    reports,          \* the report threads that are alive, in start order
    pc,               \* per application thread: where it is
    frame,            \* per application thread: the locals of the running function
    result,           \* per application thread: what its operation gave the caller
    spy,              \* per application thread: observations of its operation
    initialized,      \* observation: some call of init has returned normally
    ops               \* observation: the calls of init and of the wrapped
                      \* method started so far, the current_usage the last
                      \* init stored, the costs stored since, and whether a
                      \* wrapped call overlapped that init

vars == <<api_key, project_id, monthly_budget, current_usage, create, reports,
          pc, frame, result, spy, initialized, ops>>

config == <<api_key, project_id, monthly_budget, current_usage>>

NoUsage == [kind |-> "none", cost |-> 0]

NoFrame ==
    [ key        |-> NoneKey,     \* init: api_key
      data       |-> NoBody,      \* init: data
      original   |-> 0,           \* wrap: original_method
      top        |-> 0,           \* call: the wrapper the caller invoked
      level      |-> 0,           \* call: the wrapper now running
      left       |-> 0,           \* call: the value read for the gate's left operand
      response   |-> "",          \* call: response
      usage_data |-> NoUsage,     \* call: usage_data, or how the adapter failed
      loaded     |-> 0,           \* call: current_usage as loaded by +=
      stores     |-> 0,           \* call: stores to current_usage by this wrapper
      starts     |-> 0,           \* call: report threads started by this wrapper
      model_name     |-> "",      \* adapter: response.model
      input_tokens   |-> 0,       \* adapter: response.usage.prompt_tokens
      output_tokens  |-> 0,       \* adapter: response.usage.completion_tokens
      total_cost_inr |-> Zero,    \* adapter: total_cost_inr
      cost           |-> 0 ]      \* adapter: the cost returned

\* _SENTINEL_CONFIG as the module is loaded (lines 15-21)
NoConfig == <<NoneKey, "None", 0, 0>>

NoSpy ==
    [ op        |-> "none",   \* the operation: "init", "wrap", "call"
      key_ok    |-> FALSE,    \* init: the key is non-empty and has the prefix
      requests  |-> 0,        \* init: verify requests issued
      prev      |-> NoConfig, \* init: _SENTINEL_CONFIG when init was called
      key       |-> NoneKey,  \* init: the key passed, once init has returned
      data      |-> NoBody,   \* init: the body received, once init has returned
      verify    |-> "none",   \* init: the class of the verify outcome
      before    |-> 0,        \* wrap: create when wrap was called
      ready     |-> FALSE,    \* wrap: some init had returned normally by then
      blocked   |-> FALSE,    \* call: a gate was evaluated with usage >= budget
      original  |-> 0,        \* call: invocations of the client's own method
      orig_out  |-> NoResult, \* call: what the client's own method gave
      adapter   |-> 0,        \* call: calls of adapter.get_usage_and_cost
      metered   |-> "none",   \* call: how the last of them ended
      stores    |-> 0,        \* call: stores to current_usage
      starts    |-> 0,        \* call: report threads started
      unstarted |-> 0,        \* call: report threads that failed to start
      posts     |-> 0,        \* call: POSTs made so far by its report threads
      failed    |-> 0,        \* call: those of them that failed
      trace     |-> <<>>,     \* call: the steps taken, each with its wrapper
      alone     |-> FALSE ]   \* no init or other call has run since it began

Init ==
    /\ api_key = NoneKey
    /\ project_id = "None"
    /\ monthly_budget = 0
    /\ current_usage = 0
    /\ create = 0
    /\ reports = <<>>
    /\ pc = [t \in Threads |-> "idle"]
    /\ frame = [t \in Threads |-> NoFrame]
    /\ result = [t \in Threads |-> NoResult]
    /\ spy = [t \in Threads |-> NoSpy]
    /\ initialized = FALSE
    /\ ops = [init |-> 0, call |-> 0, base |-> 0, added |-> 0, mixed |-> FALSE]

\* Thread t is inside a wrapped call.
InCall(t) == spy[t].op = "call" /\ pc[t] \notin {"idle", "done"}

\* Thread t is inside init.
InInit(t) == spy[t].op = "init" /\ pc[t] \notin {"idle", "done"}

\* Thread t can start an operation.
Free(t) == pc[t] \in {"idle", "done"}

\* A thread that is inside init or inside a wrapped call.
Running(t) == pc[t] \notin {"idle", "done"} /\ spy[t].op \in {"init", "call"}

Alone(t) == \A u \in Threads \ {t} : ~Running(u)

\* Thread t starts init or a wrapped call: the operations of the other
\* threads are no longer alone.
Disturb(s, t) ==
    [u \in Threads |-> IF u # t /\ s[u].alone THEN [s[u] EXCEPT !.alone = FALSE] ELSE s[u]]

\* The report threads started by the operation t has finished belong to no
\* running operation any more.
Detach(rs, t) ==
    [i \in DOMAIN rs |-> IF rs[i].by = t THEN [rs[i] EXCEPT !.by = 0] ELSE rs[i]]

\* Thread t begins an operation.
Begin(t) ==
    /\ Free(t)
    /\ reports' = Detach(reports, t)

\* The observations s, with one more step taken by wrapper number level.
Step(s, level, name) == [s EXCEPT !.trace = Append(@, <<level, name>>)]

\* Thread t goes on to label l with the locals f and the observations s.
Goto(t, l, f, s) ==
    /\ pc' = [pc EXCEPT ![t] = l]
    /\ frame' = [frame EXCEPT ![t] = f]
    /\ spy' = [spy EXCEPT ![t] = s]
    /\ result' = [result EXCEPT ![t] = NoResult]

\* The operation of t ends and hands r to its caller.
Finish(t, r, f, s) ==
    /\ pc' = [pc EXCEPT ![t] = "done"]
    /\ frame' = [frame EXCEPT ![t] = f]
    /\ spy' = [spy EXCEPT ![t] = s]
    /\ result' = [result EXCEPT ![t] = r]

\* ------------------------------------------------------------------ init
\* The keys the backend issues: non-empty, with the prefix.
IsSentinelKey(k) ==
    /\ k # NoneKey
    /\ Len(k) >= Len(Prefix)
    /\ \A i \in 1..Len(Prefix) : k[i] = Prefix[i]

\* init(api_key), lines 29-32: the format check and the store of the key.
init_validate(t, k) ==
    /\ Begin(t)
    /\ ops.init < MaxInits
    /\ ops' = [ops EXCEPT !.init = @ + 1]
    /\ LET s == [NoSpy EXCEPT !.op = "init", !.key_ok = IsSentinelKey(k),
                              !.prev = config, !.alone = Alone(t)]
       IN IF bad_key(k)
            THEN /\ pc' = [pc EXCEPT ![t] = "done"]
                 /\ result' = [result EXCEPT
                                 ![t] = Raised("ValueError: a valid key is required")]
                 /\ frame' = [frame EXCEPT ![t] = NoFrame]
                 /\ spy' = [Disturb(spy, t) EXCEPT ![t] = s]
                 /\ UNCHANGED api_key
            ELSE /\ api_key' = k
                 /\ pc' = [pc EXCEPT ![t] = "init_verify"]
                 /\ result' = [result EXCEPT ![t] = NoResult]
                 /\ frame' = [frame EXCEPT ![t] = [NoFrame EXCEPT !.key = k]]
                 /\ spy' = [Disturb(spy, t) EXCEPT ![t] = s]
    /\ UNCHANGED <<project_id, monthly_budget, current_usage, create, initialized>>

\* init as the first call of init in the process
init_once(t, k) == ops.init = 0 /\ init_validate(t, k)

\* The classes of verify outcome the error taxonomy tells apart.
verify_class(o) ==
    IF o.net # "ok" THEN "network"
    ELSE IF o.status = 401 THEN "401"
    ELSE IF o.status >= 200 /\ o.status < 300 THEN "2xx"
    ELSE "other"

\* What init raises for a verify outcome, "" when it goes on (lines 37-42, 52-58).
init_error(o) ==
    IF o.net # "ok" THEN "RuntimeError: network error"
    ELSE IF raises_for_status(o.status)
      THEN IF o.status = 401 THEN "ValueError: invalid key"
                             ELSE "RuntimeError: status"
      ELSE ""

\* lines 35-45 and 52-58: the verify request, raise_for_status, response.json()
init_verify(t, o) ==
    /\ pc[t] = "init_verify"
    /\ LET s == [spy[t] EXCEPT !.requests = @ + 1, !.verify = verify_class(o)]
       IN IF init_error(o) # ""
            THEN Finish(t, Raised(init_error(o)), NoFrame, s)
            ELSE Goto(t, "init_project_id", [frame[t] EXCEPT !.data = o.body], s)
    /\ UNCHANGED <<config, create, reports, initialized, ops>>

\* Faulty variant: the usage fetched does not replace a larger local one
init_usage_merged(data, old) ==
    IF old > data.current_usage THEN old ELSE data.current_usage

\* line 48: the value stored as current_usage
init_usage(data, old) == data.current_usage

\* lines 46-48: one store per field; data[f] raises KeyError when f is missing,
\* which no except clause of init catches.  After the last store init returns.
init_store(t, f, next) ==
    /\ pc[t] = "init_" \o f
    /\ IF f \in frame[t].data.has
         THEN /\ project_id' = IF f = "project_id" THEN frame[t].data.project_id
                               ELSE project_id
              /\ monthly_budget' = IF f = "monthly_budget" THEN frame[t].data.monthly_budget
                                   ELSE monthly_budget
              /\ current_usage' = IF f = "current_usage"
                                    THEN init_usage(frame[t].data, current_usage)
                                    ELSE current_usage
              /\ IF next = ""
                   THEN /\ Finish(t, Returned("None"), NoFrame,
                                  [spy[t] EXCEPT !.key = frame[t].key,
                                                 !.data = frame[t].data])
                        /\ initialized' = TRUE
                   ELSE /\ Goto(t, "init_" \o next, frame[t], spy[t])
                        /\ UNCHANGED initialized
              /\ ops' = IF f = "current_usage"
                          THEN [ops EXCEPT !.base = current_usage', !.added = 0,
                                           !.mixed = \E u \in Threads : InCall(u)]
                          ELSE ops
         ELSE /\ Finish(t, Raised("KeyError"), NoFrame, spy[t])
              /\ UNCHANGED <<project_id, monthly_budget, current_usage, initialized, ops>>
    /\ UNCHANGED <<api_key, create, reports>>

init_store_project_id(t) == init_store(t, "project_id", "monthly_budget")

init_store_monthly_budget(t) == init_store(t, "monthly_budget", "current_usage")

init_store_current_usage(t) == init_store(t, "current_usage", "")

\* ------------------------------------------------------------------ wrap
\* What wrap raises, "" when it goes on (lines 71-72).
wrap_error == IF ~truthy(api_key) THEN "RuntimeError: not initialized" ELSE ""

\* wrap(client, adapter), lines 71-76: the check and the capture of the method
wrap_capture(t) ==
    /\ Begin(t)
    /\ create < MaxWrap
    /\ UNCHANGED ops
    /\ LET s == [NoSpy EXCEPT !.op = "wrap", !.before = create, !.ready = initialized]
       IN IF wrap_error # ""
            THEN Finish(t, Raised(wrap_error), NoFrame, s)
            ELSE Goto(t, "wrap_install", [NoFrame EXCEPT !.original = create], s)
    /\ UNCHANGED <<config, create, initialized>>

\* lines 113-114: the wrapper replaces the method; the client is returned
wrap_install(t) ==
    /\ pc[t] = "wrap_install"
    /\ create' = frame[t].original + 1
    /\ Finish(t, Returned("client"), NoFrame, spy[t])
    /\ UNCHANGED <<config, reports, initialized, ops>>

\* ------------------------------------------------------ _sentinel_wrapper
\* A caller invokes client.chat.completions.create, which is the wrapper
\* installed last.
call_enter(t) ==
    /\ Begin(t)
    /\ create >= 1
    /\ ops.call < MaxCalls
    /\ ops' = [ops EXCEPT !.call = @ + 1,
                          !.mixed = @ \/ \E u \in Threads : InInit(u)]
    /\ pc' = [pc EXCEPT ![t] = "gate_left"]
    /\ result' = [result EXCEPT ![t] = NoResult]
    /\ frame' = [frame EXCEPT ![t] = [NoFrame EXCEPT !.top = create, !.level = create]]
    /\ spy' = [Disturb(spy, t) EXCEPT
                 ![t] = [NoSpy EXCEPT !.op = "call", !.alone = Alone(t)]]
    /\ UNCHANGED <<config, create, initialized>>

\* line 81, left operand: _SENTINEL_CONFIG["current_usage"]
gate_read(t) ==
    /\ pc[t] = "gate_left"
    /\ Goto(t, "gate", [frame[t] EXCEPT !.left = current_usage], spy[t])
    /\ UNCHANGED <<config, create, reports, initialized, ops>>

\* Faulty variant: the gate lets a call through when the budget is exactly used up
budget_exceeded_strict(usage, budget) == usage > budget

\* the comparison of line 81
budget_exceeded(usage, budget) == usage >= budget

\* lines 81-84: the right operand, the comparison, the raise.  The error
\* leaves every enclosing wrapper at its line 87, outside the try.
gate(t) ==
    /\ pc[t] = "gate"
    /\ LET s == [spy[t] EXCEPT !.blocked = @ \/ ( /\ frame[t].left = current_usage
                                                  /\ current_usage >= monthly_budget )]
       IN IF budget_exceeded(frame[t].left, monthly_budget)
            THEN Finish(t, Raised("BudgetExceededError"), NoFrame, s)
            ELSE Goto(t, "delegate", frame[t], Step(s, frame[t].level, "gate"))
    /\ UNCHANGED <<config, create, reports, initialized, ops>>

\* line 87 in a wrapper whose original_method is another wrapper
call_inner(t) ==
    /\ pc[t] = "delegate"
    /\ frame[t].level > 1
    /\ Goto(t, "gate_left", [frame[t] EXCEPT !.level = @ - 1, !.left = 0],
            Step(spy[t], frame[t].level, "delegate"))
    /\ UNCHANGED <<config, create, reports, initialized, ops>>

\* Faulty variant: the wrapper translates the client's error
propagated_wrapped(e) == "RuntimeError: call failed"

\* What reaches the caller of line 87 when original_method raises e: e itself,
\* line 87 being outside the try.
propagated(e) == e

\* line 87 in the innermost wrapper: the client's own method returns a
\* response or raises.
call_original(t, out) ==
    /\ pc[t] = "delegate"
    /\ frame[t].level = 1
    /\ LET s == Step([spy[t] EXCEPT !.original = @ + 1, !.orig_out = out], 1, "delegate")
       IN IF out.kind = "return"
            THEN Goto(t, "meter", [frame[t] EXCEPT !.response = out.val],
                      Step(s, 1, "returned"))
            ELSE Finish(t, Raised(propagated(out.val)), NoFrame, s)
    /\ UNCHANGED <<config, create, reports, initialized, ops>>

\* Faulty variant: only the missing key is caught ("except KeyError")
after_meter_uncaught(u) ==
    IF u.kind = "raise" THEN "raise"
    ELSE IF u.kind = "nocost" THEN "return" ELSE "update_load"

\* Faulty variant: the report thread is started before current_usage is updated
after_meter_report_first(u) ==
    IF u.kind \in {"raise", "nocost"} THEN "return" ELSE "start_report"

\* Where the wrapper goes after the adapter call and the read of
\* usage_data["cost"] (lines 90-92, 104-107): on to the update, or, when
\* either raised, through the except clause to the return.  "raise" would
\* be the error leaving the wrapper, which "except Exception" rules out.
after_meter(u) == IF u.kind \in {"raise", "nocost"} THEN "return" ELSE "update_load"

\* lines 91-92
meter(t, u) ==
    /\ pc[t] = "meter"
    /\ LET s == Step([spy[t] EXCEPT !.adapter = @ + 1, !.metered = u.kind],
                     frame[t].level, "meter")
       IN IF after_meter(u) = "raise"
            THEN Finish(t, Raised("AdapterError"), NoFrame, s)
            ELSE Goto(t, after_meter(u), [frame[t] EXCEPT !.usage_data = u], s)
    /\ UNCHANGED <<config, create, reports, initialized, ops>>

\* line 95, the load of +=; adding a cost that is no number raises TypeError,
\* which the except clause catches
update_load(t) ==
    /\ pc[t] = "update_load"
    /\ IF frame[t].usage_data.kind = "badcost"
         THEN Goto(t, "return", frame[t], spy[t])
         ELSE Goto(t, "update_store", [frame[t] EXCEPT !.loaded = current_usage], spy[t])
    /\ UNCHANGED <<config, create, reports, initialized, ops>>

\* Faulty variant: = in place of +=
updated_overwritten(loaded, cost) == cost

\* the sum that += stores
updated(loaded, cost) == loaded + cost

\* line 95, the store of +=
update_store(t) ==
    /\ pc[t] = "update_store"
    /\ current_usage' = updated(frame[t].loaded, frame[t].usage_data.cost)
    /\ Goto(t, "start_report", [frame[t] EXCEPT !.stores = @ + 1, !.loaded = 0],
            Step([spy[t] EXCEPT !.stores = @ + 1], frame[t].level, "update"))
    /\ ops' = [ops EXCEPT !.added = @ + frame[t].usage_data.cost]
    /\ UNCHANGED <<api_key, project_id, monthly_budget, create, reports, initialized>>

\* lines 99-102: Thread(...).start().  It raises RuntimeError when the
\* process can start no more threads, which the except clause catches.
start_report(t, ok) ==
    /\ pc[t] = "start_report"
    /\ ok => Len(reports) < MaxReports
    /\ IF ok
         THEN /\ reports' = Append(reports, [by |-> t, posts |-> 0])
              /\ Goto(t, "return", [frame[t] EXCEPT !.starts = @ + 1],
                      Step([spy[t] EXCEPT !.starts = @ + 1], frame[t].level, "report"))
         ELSE /\ Goto(t, "return", frame[t], [spy[t] EXCEPT !.unstarted = @ + 1])
              /\ UNCHANGED reports
    /\ UNCHANGED <<config, create, initialized, ops>>

\* Faulty variant: the response is returned from inside the try, after the report
\* thread was started; otherwise the wrapper falls off its end
return_value_when_reported(f) == IF f.starts > 0 THEN f.response ELSE "None"

\* the value of line 110
return_value(f) == f.response

\* line 110: to the caller, or to line 87 of the enclosing wrapper, whose
\* response it becomes
return_response(t) ==
    /\ pc[t] = "return"
    /\ IF frame[t].level = frame[t].top
         THEN Finish(t, Returned(return_value(frame[t])), NoFrame, spy[t])
         ELSE Goto(t, "meter",
                   [NoFrame EXCEPT !.top = frame[t].top, !.level = frame[t].level + 1,
                                   !.response = return_value(frame[t])],
                   Step(spy[t], frame[t].level + 1, "returned"))
    /\ UNCHANGED <<config, create, reports, initialized, ops>>

\* ------------------------------------------------ _report_usage_to_backend
\* lines 123-132: the POST failed (RequestException, HTTPError included)
report_failed(o) == o.net # "ok" \/ raises_for_status(o.status)

\* Faulty variant: a failed POST is raised into the call that started the thread
after_report_raising(i, o) ==
    IF report_failed(o) /\ reports[i].by # 0
      THEN [result EXCEPT ![reports[i].by] = Raised("RequestException")]
      ELSE result

\* What the callers hold after report thread i got outcome o: what they
\* held before; a failure is caught and printed (lines 130-132).
after_report(i, o) == result

\* Faulty variant: a report thread whose POST failed stays to try again
reports_after_retrying(i, o) ==
    IF report_failed(o)
      THEN [reports EXCEPT ![i].posts = @ + 1]
      ELSE [j \in 1..(Len(reports) - 1) |-> IF j < i THEN reports[j] ELSE reports[j + 1]]

\* The report threads alive after thread i got outcome o for its POST: the
\* function returns after the request or after the except clause, and the
\* thread ends.
reports_after(i, o) ==
    [j \in 1..(Len(reports) - 1) |-> IF j < i THEN reports[j] ELSE reports[j + 1]]

\* The report thread i runs _report_usage_to_backend: one POST, then it ends.
report_usage_to_backend(i, o) ==
    /\ i \in DOMAIN reports
    /\ reports' = reports_after(i, o)
    /\ result' = after_report(i, o)
    /\ spy' = IF reports[i].by = 0 THEN spy
              ELSE [spy EXCEPT ![reports[i].by].posts = @ + 1,
                               ![reports[i].by].failed =
                                   @ + (IF report_failed(o) THEN 1 ELSE 0)]
    /\ UNCHANGED <<config, create, pc, frame, initialized, ops>>

\* ------------------------------------------- OpenAIAdapter.get_usage_and_cost
\* lines 28-32: the model name and the token counts are read off the response
get_usage_and_cost(t) ==
    /\ \A u \in Threads : pc[u] = "idle"
    /\ Begin(t)
    /\ pc' = [pc EXCEPT ![t] = "adapter_cost"]
    /\ \E m \in ModelNames, i \in Tokens, o \in Tokens :
          frame' = [frame EXCEPT ![t] = [NoFrame EXCEPT !.model_name = m,
                                                          !.input_tokens = i,
                                                          !.output_tokens = o]]
    /\ spy' = [spy EXCEPT ![t] = [NoSpy EXCEPT !.op = "adapter"]]
    /\ result' = [result EXCEPT ![t] = NoResult]
    /\ UNCHANGED <<config, create, initialized, ops>>

\* lines 35-39, 56-68: _calculate_openai_cost up to the conversion to INR
adapter_cost(t) ==
    /\ pc[t] = "adapter_cost"
    /\ Goto(t, "adapter_round",
            [frame[t] EXCEPT !.total_cost_inr =
                total_cost_inr(frame[t].input_tokens, frame[t].output_tokens,
                               frame[t].model_name)],
            spy[t])
    /\ UNCHANGED <<config, create, reports, initialized, ops>>

\* lines 70 and 42-49: the rounding, and the dict that is returned
adapter_return(t) ==
    /\ pc[t] = "adapter_round"
    /\ Finish(t, Returned("usage_data"),
              [frame[t] EXCEPT !.cost = calculate_openai_cost(frame[t].total_cost_inr)],
              spy[t])
    /\ UNCHANGED <<config, create, reports, initialized, ops>>

\* ------------------------------------------------------------------ Next
Next ==
    \/ \E t \in Threads, k \in Keys : init_validate(t, k)
    \/ \E t \in Threads, o \in VerifyOutcomes : init_verify(t, o)
    \/ \E t \in Threads : init_store_project_id(t)
    \/ \E t \in Threads : init_store_monthly_budget(t)
    \/ \E t \in Threads : init_store_current_usage(t)
    \/ \E t \in Threads : wrap_capture(t)
    \/ \E t \in Threads : wrap_install(t)
    \/ \E t \in Threads : call_enter(t)
    \/ \E t \in Threads : gate_read(t)
    \/ \E t \in Threads : gate(t)
    \/ \E t \in Threads : call_inner(t)
    \/ \E t \in Threads, out \in OriginalOutcomes : call_original(t, out)
    \/ \E t \in Threads, u \in AdapterOutcomes : meter(t, u)
    \/ \E t \in Threads : update_load(t)
    \/ \E t \in Threads : update_store(t)
    \/ \E t \in Threads, ok \in BOOLEAN : start_report(t, ok)
    \/ \E t \in Threads : return_response(t)
    \/ \E i \in 1..MaxReports, o \in PostOutcomes : report_usage_to_backend(i, o)

Spec == Init /\ [][Next]_vars

\* A session that is initialised once, with a key the backend accepts, and
\* then used for wrapped calls.
GoodKeys == { Prefix \o <<"A">> }

GoodVerify == { o \in VerifyOutcomes : o.net = "ok" /\ o.status = 200 /\ o.body.has = Fields }

NextCall ==
    \/ \E t \in Threads, k \in GoodKeys : init_once(t, k)
    \/ \E t \in Threads, o \in GoodVerify : init_verify(t, o)
    \/ \E t \in Threads : init_store_project_id(t)
    \/ \E t \in Threads : init_store_monthly_budget(t)
    \/ \E t \in Threads : init_store_current_usage(t)
    \/ \E t \in Threads : wrap_capture(t)
    \/ \E t \in Threads : wrap_install(t)
    \/ \E t \in Threads : call_enter(t)
    \/ \E t \in Threads : gate_read(t)
    \/ \E t \in Threads : gate(t)
    \/ \E t \in Threads : call_inner(t)
    \/ \E t \in Threads, out \in OriginalOutcomes : call_original(t, out)
    \/ \E t \in Threads, u \in AdapterOutcomes : meter(t, u)
    \/ \E t \in Threads : update_load(t)
    \/ \E t \in Threads : update_store(t)
    \/ \E t \in Threads, ok \in BOOLEAN : start_report(t, ok)
    \/ \E t \in Threads : return_response(t)
    \/ \E i \in 1..MaxReports, o \in PostOutcomes : report_usage_to_backend(i, o)

SpecCall == Init /\ [][NextCall]_vars

\* A session in which init and wrap are called with any key and any answer
\* of the backend, before any wrapped call is made.
NextInit ==
    \/ \E t \in Threads, k \in Keys : init_validate(t, k)
    \/ \E t \in Threads, o \in VerifyOutcomes : init_verify(t, o)
    \/ \E t \in Threads : init_store_project_id(t)
    \/ \E t \in Threads : init_store_monthly_budget(t)
    \/ \E t \in Threads : init_store_current_usage(t)
    \/ \E t \in Threads : wrap_capture(t)
    \/ \E t \in Threads : wrap_install(t)

SpecInit == Init /\ [][NextInit]_vars

\* One call of the OpenAI adapter, for any model name and token counts.
NextCost ==
    \/ \E t \in Threads : get_usage_and_cost(t)
    \/ \E t \in Threads : adapter_cost(t)
    \/ \E t \in Threads : adapter_return(t)

SpecCost == Init /\ [][NextCost]_vars

\* A session whose operations are issued one at a time: init, wrap and the
\* wrapped method are each called only when no other call of them is running.
OneAtATime == \A u \in Threads : Free(u)

seq_init(t, k) == OneAtATime /\ init_validate(t, k)

seq_wrap(t) == OneAtATime /\ wrap_capture(t)

seq_call(t) == OneAtATime /\ call_enter(t)

NextSeq ==
    \/ \E t \in Threads, k \in Keys : seq_init(t, k)
    \/ \E t \in Threads, o \in VerifyOutcomes : init_verify(t, o)
    \/ \E t \in Threads : init_store_project_id(t)
    \/ \E t \in Threads : init_store_monthly_budget(t)
    \/ \E t \in Threads : init_store_current_usage(t)
    \/ \E t \in Threads : seq_wrap(t)
    \/ \E t \in Threads : wrap_install(t)
    \/ \E t \in Threads : seq_call(t)
    \/ \E t \in Threads : gate_read(t)
    \/ \E t \in Threads : gate(t)
    \/ \E t \in Threads : call_inner(t)
    \/ \E t \in Threads, out \in OriginalOutcomes : call_original(t, out)
    \/ \E t \in Threads, u \in AdapterOutcomes : meter(t, u)
    \/ \E t \in Threads : update_load(t)
    \/ \E t \in Threads : update_store(t)
    \/ \E t \in Threads, ok \in BOOLEAN : start_report(t, ok)
    \/ \E t \in Threads : return_response(t)
    \/ \E i \in 1..MaxReports, o \in PostOutcomes : report_usage_to_backend(i, o)

SpecSeq == Init /\ [][NextSeq]_vars

\* A session that is initialised once, with a key the backend accepts, and
\* then used for wrapped calls that are issued one at a time.  The adapter's
\* costs range up to MaxSeqCost, so that one call can overrun the budget.
seq_init_once(t, k) == OneAtATime /\ init_once(t, k)

SeqAdapterOutcomes ==
    AdapterOutcomes \cup { [kind |-> "cost", cost |-> c] : c \in 0..MaxSeqCost }

NextSeqCall ==
    \/ \E t \in Threads, k \in GoodKeys : seq_init_once(t, k)
    \/ \E t \in Threads, o \in GoodVerify : init_verify(t, o)
    \/ \E t \in Threads : init_store_project_id(t)
    \/ \E t \in Threads : init_store_monthly_budget(t)
    \/ \E t \in Threads : init_store_current_usage(t)
    \/ \E t \in Threads : seq_wrap(t)
    \/ \E t \in Threads : wrap_install(t)
    \/ \E t \in Threads : seq_call(t)
    \/ \E t \in Threads : gate_read(t)
    \/ \E t \in Threads : gate(t)
    \/ \E t \in Threads : call_inner(t)
    \/ \E t \in Threads, out \in OriginalOutcomes : call_original(t, out)
    \/ \E t \in Threads, u \in SeqAdapterOutcomes : meter(t, u)
    \/ \E t \in Threads : update_load(t)
    \/ \E t \in Threads : update_store(t)
    \/ \E t \in Threads, ok \in BOOLEAN : start_report(t, ok)
    \/ \E t \in Threads : return_response(t)
    \/ \E i \in 1..MaxReports, o \in PostOutcomes : report_usage_to_backend(i, o)

SpecSeqCall == Init /\ [][NextSeqCall]_vars

\* ================================================================ claims
Calls == { t \in Threads : spy[t].op = "call" }

Inits == { t \in Threads : spy[t].op = "init" }

\* C1: a wrapped invocation whose gate is evaluated in a state where
\* current_usage >= monthly_budget raises BudgetExceededError, and the
\* client's own method is not invoked by it.
C1_GateBlocksExhausted ==
    \A t \in Calls :
        spy[t].blocked =>
            /\ pc[t] = "done"
            /\ result[t] = Raised("BudgetExceededError")
            /\ spy[t].original = 0

\* C1, its case: a call was refused because usage had reached a budget
\* the backend had set.
C1_Witness ==
    \E t \in Calls :
        /\ spy[t].blocked
        /\ pc[t] = "done"
        /\ initialized
        /\ monthly_budget > 0
        /\ current_usage >= monthly_budget

\* C2: an invocation through a single wrapper that passed the gate, whose
\* original call returned a response and whose adapter returned cost c, with
\* no init or other wrapped call running meanwhile: at its return
\* current_usage is the value read at the gate plus c, and the caller gets
\* the response the original method returned.
C2_MeteredCallAddsCost ==
    \A t \in Calls :
        /\ ( /\ pc[t] = "return"
             /\ frame[t].top = 1
             /\ frame[t].usage_data.kind = "cost"
             /\ spy[t].alone )
           => /\ current_usage = frame[t].left + frame[t].usage_data.cost
              /\ return_value(frame[t]) = spy[t].orig_out.val
        /\ ( /\ pc[t] = "done"
             /\ spy[t].adapter = 1
             /\ spy[t].metered = "cost"
             /\ spy[t].alone )
           => result[t] = Returned(spy[t].orig_out.val)

\* C2, its case: a call that ran alone, started from a usage above zero and
\* added its cost to it.
C2_Witness ==
    \E t \in Calls :
        /\ pc[t] = "done"
        /\ spy[t].adapter = 1
        /\ spy[t].metered = "cost"
        /\ spy[t].stores = 1
        /\ spy[t].alone
        /\ result[t].kind = "return"
        /\ monthly_budget = 2
        /\ current_usage = 2

\* C3 (as claimed): between the moment an invocation passes the gate and the
\* moment it has added its cost to current_usage, no other invocation passes
\* the gate.
InWindow(t) == pc[t] \in {"delegate", "meter", "update_load", "update_store"}

C3_GateAndUpdateAtomic == Cardinality({ t \in Calls : InWindow(t) }) <= 1

\* C4 (as claimed): wrap called while no call of init has completed
\* successfully fails with the not-initialized RuntimeError and does not go
\* on to replace the client's create method.
C4_WrapNeedsSuccessfulInit ==
    \A t \in Threads :
        (spy[t].op = "wrap" /\ ~spy[t].ready) =>
            /\ pc[t] = "done"
            /\ result[t] = Raised("RuntimeError: not initialized")

\* C5: when the adapter raises, the wrapper makes no store to current_usage
\* and starts no report thread, current_usage is what it was at the gate when
\* nothing else ran meanwhile, and the caller gets the response of the
\* original method, not an error.
C5_AdapterFailureIsContained ==
    \A t \in Calls :
        /\ (pc[t] = "return" /\ frame[t].usage_data.kind = "raise")
           => /\ frame[t].stores = 0
              /\ frame[t].starts = 0
              /\ (spy[t].alone /\ frame[t].top = 1) => current_usage = frame[t].left
        /\ (pc[t] = "done" /\ spy[t].metered = "raise")
           => result[t] = Returned(spy[t].orig_out.val)

\* C5, its case: a call has returned a response although its adapter raised.
C5_Witness ==
    \E t \in Calls :
        /\ pc[t] = "done"
        /\ spy[t].metered = "raise"
        /\ spy[t].adapter = 1
        /\ result[t].kind = "return"

\* C6: once the original method has returned a response, the caller gets
\* that response, whatever the later steps did.
C6_ResponseAlwaysReturned ==
    \A t \in Calls :
        (pc[t] = "done" /\ spy[t].orig_out.kind = "return")
            => result[t] = Returned(spy[t].orig_out.val)

\* C6, its case: one call returned its response after the update of
\* current_usage had failed, another after the report thread had failed to
\* start.
C6_Witness ==
    \E t, u \in Calls :
        /\ pc[t] = "done" /\ result[t].kind = "return"
        /\ spy[t].metered = "badcost"
        /\ pc[u] = "done" /\ result[u].kind = "return"
        /\ spy[u].metered = "cost" /\ spy[u].stores = 1 /\ spy[u].starts = 0

\* C7: when the original method raises, the caller gets that error, and the
\* invocation has called no adapter, stored nothing to current_usage and
\* started no report thread.
C7_ClientErrorPassesThrough ==
    \A t \in Calls :
        spy[t].orig_out.kind = "raise" =>
            /\ pc[t] = "done"
            /\ result[t] = spy[t].orig_out
            /\ spy[t].adapter = 0
            /\ spy[t].stores = 0
            /\ spy[t].starts = 0

\* C7, its case: a call ended with the error of the client's own method.
C7_Witness ==
    \E t \in Calls :
        /\ pc[t] = "done"
        /\ spy[t].orig_out.kind = "raise"
        /\ result[t].kind = "raise"

\* C8: a step in which a report thread ends, whatever its POST gave, changes
\* no application thread's position, locals or result and nothing of the
\* budget state a later gate reads.
C8_ReportOffTheCallingPath ==
    [][ Len(reports') < Len(reports)
          => UNCHANGED <<pc, frame, result, api_key, project_id, monthly_budget,
                         current_usage, create>> ]_vars

\* C8, its case: a call has returned its response while the report thread
\* it started has not yet made its POST.
C8_Witness ==
    \E t \in Calls :
        /\ pc[t] = "done"
        /\ result[t].kind = "return"
        /\ spy[t].starts = 1
        /\ \E i \in DOMAIN reports : reports[i].by = t

\* C9: init with an empty key or a key without the prefix raises the
\* ValueError of the format check, and has issued no verify request.
C9_BadKeyFailsBeforeNetwork ==
    \A t \in Inits :
        ~spy[t].key_ok =>
            /\ pc[t] = "done"
            /\ result[t] = Raised("ValueError: a valid key is required")
            /\ spy[t].requests = 0

\* C9, its case: init has refused a key after an earlier init had stored one.
C9_Witness ==
    \E t \in Inits :
        /\ ~spy[t].key_ok
        /\ pc[t] = "done"
        /\ result[t].kind = "raise"
        /\ api_key # NoneKey

\* C10 (as claimed): for a well-formed key, 401 gives the invalid-key
\* ValueError, any other non-2xx status or a network failure gives a
\* RuntimeError, and init returns normally only for a 2xx response.
C10_InitOutcomeByVerifyResponse ==
    \A t \in Inits :
        (pc[t] = "done" /\ spy[t].key_ok) =>
            /\ spy[t].verify = "401" => result[t] = Raised("ValueError: invalid key")
            /\ spy[t].verify = "other" => result[t] = Raised("RuntimeError: status")
            /\ spy[t].verify = "network" => result[t] = Raised("RuntimeError: network error")
            /\ result[t].kind = "return" => spy[t].verify = "2xx"

\* The state a successful init(key) that received body d leaves behind.
Fetched(key, d) == <<key, d.project_id, d.monthly_budget, d.current_usage>>

\* C11: when init has returned normally and no other init or wrapped call
\* has run since it began, api_key, project_id, monthly_budget and
\* current_usage are the key passed and the values of the body received,
\* whatever they were before; so an init that follows a successful init
\* with the same key and answer leaves the state that one left.
C11_InitOverwrites ==
    \A t \in Inits :
        (pc[t] = "done" /\ result[t].kind = "return" /\ spy[t].alone) =>
            /\ config = Fetched(spy[t].key, spy[t].data)
            /\ spy[t].prev = Fetched(spy[t].key, spy[t].data) => config = spy[t].prev

\* C11, its case: an init has returned after metered calls had raised
\* current_usage above what the backend now answers, and after an earlier
\* init with another key.
C11_Witness ==
    \E t \in Inits :
        /\ pc[t] = "done" /\ result[t].kind = "return" /\ spy[t].alone
        /\ ops.call > 0
        /\ spy[t].prev[4] > spy[t].data.current_usage
        /\ spy[t].prev[1] # spy[t].key
        /\ spy[t].prev[1] # NoneKey

\* C11, its other case: an init has returned that followed a successful
\* init with the same key and the same answer.
C11_WitnessSame ==
    \E t \in Inits :
        /\ pc[t] = "done" /\ result[t].kind = "return" /\ spy[t].alone
        /\ ops.init = 2
        /\ spy[t].prev = Fetched(spy[t].key, spy[t].data)

\* The prices of the pricing table in half dollars per million tokens, zero
\* for a model that is not in it.
Price2(m) ==
    IF m = "gpt-4o" THEN [input |-> 10, output |-> 30]
    ELSE IF m = "gpt-4-turbo" THEN [input |-> 20, output |-> 60]
    ELSE IF m = "gpt-3.5-turbo" THEN [input |-> 1, output |-> 3]
    ELSE [input |-> 0, output |-> 0]

\* (input_tokens/1e6 * input price + output_tokens/1e6 * output price) * 83.50
\* in units of 1e-4 is ExactNum(f) / ExactDen.
ExactNum(f) ==
    167 * (f.input_tokens * Price2(f.model_name).input
            + f.output_tokens * Price2(f.model_name).output)

ExactDen == 400

AdapterCalls == { t \in Threads : spy[t].op = "adapter" /\ pc[t] = "done" }

\* C12 (as claimed): the cost returned is the exact value of the formula
\* rounded to 4 decimal places, a tie going to the even digit or upwards.
C12_CostIsExactlyRounded ==
    \A t \in AdapterCalls :
        LET n == ExactNum(frame[t])
            down == n \div ExactDen
            tie == 2 * (n % ExactDen) = ExactDen
            nearest == IF 2 * (n % ExactDen) > ExactDen THEN down + 1 ELSE down
        IN IF tie
             THEN frame[t].cost = down + 1
                  \/ (down % 2 = 0 /\ frame[t].cost = down)
             ELSE frame[t].cost = nearest

\* C12 (amended): get_usage_and_cost returns, and the cost is a multiple of
\* 1e-4 nearest to the exact value of the formula with the prices of the
\* exact model name, zero for a name not in the table; when the exact value
\* lies halfway between two multiples the cost is one of the two.
C12_CostIsNearest ==
    \A t \in AdapterCalls :
        LET n == ExactNum(frame[t])
            d == ExactDen * frame[t].cost - n
        IN /\ result[t].kind = "return"
           /\ 2 * d <= ExactDen
           /\ 2 * d >= 0 - ExactDen
           /\ frame[t].model_name \notin DOMAIN MODEL_PRICING => frame[t].cost = 0

\* C12, its case: a cost was returned for a model of the table with both
\* token counts above zero, the exact value lying between two multiples.
C12_Witness ==
    \E t \in AdapterCalls :
        /\ frame[t].model_name = "gpt-3.5-turbo"
        /\ frame[t].input_tokens > 0
        /\ frame[t].output_tokens > 0
        /\ frame[t].cost > 0
        /\ ExactNum(frame[t]) % ExactDen # 0

\* C12, its other case: a model whose name extends a name of the table
\* costs nothing.
C12_WitnessUnknown ==
    \E t \in AdapterCalls :
        /\ frame[t].model_name = "gpt-4o-mini"
        /\ frame[t].input_tokens = MaxTokens
        /\ frame[t].cost = 0

\* C13 (as claimed): when init has failed and no other init or wrapped call
\* has run since it began, api_key, project_id, monthly_budget and
\* current_usage are what they were when it was called.
C13_FailedInitWritesNothing ==
    \A t \in Inits :
        (pc[t] = "done" /\ result[t].kind = "raise" /\ spy[t].alone)
            => config = spy[t].prev

\* The steps of one wrapper, in the order of its statements.
StepOrder == <<"gate", "delegate", "returned", "meter", "update", "report">>

\* The steps wrapper number level has taken in the invocation of thread t.
StepsOf(t, level) == SelectSeq(spy[t].trace, LAMBDA e : e[1] = level)

\* C14: in every wrapper of an invocation the steps taken so far are an
\* initial part of gate, delegate, meter, update, report: the original method
\* is invoked only after the gate has passed, the adapter is called only
\* after the original method has returned, current_usage is stored only
\* after the adapter call, and the report thread is started only after
\* that store.
C14_StepsInOrder ==
    \A t \in Calls : \A level \in 1..MaxWrap :
        LET steps == StepsOf(t, level)
        IN /\ Len(steps) <= Len(StepOrder)
           /\ \A i \in 1..Len(steps) : steps[i][2] = StepOrder[i]

\* C14, its case: an invocation through two wrappers has returned after
\* both of them went through all their steps.
C14_Witness ==
    \E t \in Calls :
        /\ pc[t] = "done"
        /\ result[t].kind = "return"
        /\ \A level \in 1..2 : Len(StepsOf(t, level)) = Len(StepOrder)

\* C15 (as claimed): every wrapper of an invocation that has stored its cost
\* has started a report thread.
C15_OneReportPerMeteredCall ==
    \A t \in Calls :
        (pc[t] = "done" /\ result[t].kind = "return") => spy[t].starts = spy[t].stores

\* C15 (amended): every wrapper of an invocation that has stored its cost
\* has made one attempt to start a report thread, which started one thread
\* unless Thread.start raised; a report thread that has made its POST is
\* gone, whatever the POST gave; and the step in which it makes the POST
\* leaves current_usage as it was.
C15_OneReportOnePost ==
    /\ [](\A t \in Calls :
            /\ spy[t].starts + spy[t].unstarted <= spy[t].stores
            /\ (pc[t] = "done" /\ result[t].kind = "return")
                 => spy[t].starts + spy[t].unstarted = spy[t].stores
            /\ spy[t].posts <= spy[t].starts)
    /\ [](\A i \in DOMAIN reports : reports[i].posts = 0)
    /\ [][Len(reports') < Len(reports) => current_usage' = current_usage]_vars

\* C15, its case: a metered invocation has returned, the one report thread
\* it started has made its POST, which failed, and no report thread is left.
C15_Witness ==
    \E t \in Calls :
        /\ pc[t] = "done"
        /\ result[t].kind = "return"
        /\ spy[t].stores = 1
        /\ spy[t].starts = 1
        /\ spy[t].posts = 1
        /\ spy[t].failed = 1
        /\ reports = <<>>
        /\ current_usage > 0

\* C16 (as claimed): when every operation has returned and no wrapped call
\* overlapped an init, current_usage is the value the last init stored plus
\* the costs of the wrapped calls metered since, however those calls
\* overlapped one another.
C16_NoLostUpdate ==
    ((\A t \in Threads : Free(t)) /\ ~ops.mixed)
        => current_usage = ops.base + ops.added

\* C17 (as claimed): while no init is running and no wrapped call is under
\* way that overlapped one, no step lowers current_usage, however the wrapped
\* calls overlap one another (the costs of the adapter are never negative).
C17_UsageNeverDecreases ==
    [][((\A t \in Threads : ~InInit(t)) /\ ~ops.mixed)
          => current_usage' >= current_usage]_vars

\* C18 (as claimed): a wrapped invocation has reached the client's own
\* method only if some call of init has returned normally before.
C18_OriginalNeedsSuccessfulInit ==
    \A t \in Calls : spy[t].original > 0 => initialized

\* ---------------------------------------------------------------------------
\* C19  Wrapped invocations issued one at a time, no init in between, every
\* adapter cost in [0, MaxSeqCost]: in every state current_usage is below
\* monthly_budget + MaxSeqCost.
C19_OverrunBoundedByOneCall ==
    (\A t \in Threads : ~InInit(t)) =>
        current_usage < monthly_budget + MaxSeqCost

\* C19 (amended)  The same, for a client that wrap was applied to once and a
\* session whose init stored a current_usage below monthly_budget +
\* MaxSeqCost: the gate lets a call through only below the budget, and the
\* call adds one cost.
C19_OverrunBoundedForOneWrapper ==
    ((\A t \in Threads : ~InInit(t)) /\ create <= 1
        /\ ops.base < monthly_budget + MaxSeqCost) =>
        current_usage < monthly_budget + MaxSeqCost

\* a call has pushed current_usage over the budget, within the bound
C19_Witness ==
    /\ \A t \in Threads : ~InInit(t)
    /\ create = 1
    /\ ops.base < monthly_budget
    /\ ops.added > 0
    /\ current_usage > monthly_budget
    /\ current_usage = monthly_budget + MaxSeqCost - 1

\* a client wrapped twice is pushed past the bound by one caller-level call
C19_WitnessTwoWrappers ==
    /\ \A t \in Threads : ~InInit(t)
    /\ create = 2
    /\ ops.base < monthly_budget
    /\ current_usage >= monthly_budget + MaxSeqCost

\* ---------------------------------------------------------------------------
\* C20  After wrap has been applied two or more times, one caller-level
\* invocation that succeeds invokes the original method once, adds a cost to
\* current_usage at most once and starts at most one report thread.
C20_WrapIdempotentInMetering ==
    \A t \in Calls :
        (pc[t] = "done" /\ result[t].kind = "return" /\ StepsOf(t, 2) # <<>>) =>
            /\ spy[t].original = 1
            /\ spy[t].stores <= 1
            /\ spy[t].starts <= 1
====
